---- MODULE Spec2Model ----
(***************************************************************************)
(* A model of package gen (zyguan/xs): the generator algebra.              *)
(*                                                                         *)
(* A Generator is an immutable value; Next(ctx) returns a value and the    *)
(* continuation.  Generators are modelled as records tagged by their Go    *)
(* type (field k); the nil Generator interface is Nil.  A call of Next is  *)
(* modelled by the SET of its possible outcomes: rand.Intn, rand.Float64   *)
(* and Go's select among several ready cases are nondeterministic.         *)
(*                                                                         *)
(* The world w threaded through a call holds what a call can change       *)
(* outside the generator value: the timer channels (time.After, a ticker), *)
(* the number of timer-factory invocations and the number of invocations   *)
(* of the callables wrapped by Some.                                       *)
(*                                                                         *)
(* The second part models Walk of package perms (the same loop as Walk of  *)
(* package rule): the enumeration of the derivations of a rule by a stack  *)
(* machine.  It has a specification of its own, WalkSpec.                  *)
(***************************************************************************)
EXTENDS Integers, Sequences, FiniteSets, TLC

VARIABLES
    gen,    \* the driver's current generator (the last continuation)
    out,    \* the values the driver's Next calls returned, in order
    st,     \* "running", "done" (nil continuation) or "panic"
    world,  \* the world: timer channels, factory-call and callable-call counts
    prog,   \* how the generator under drive was constructed (never changes)
    last,   \* the driver's last Next call: context, receiver, result
    walk    \* Walk: its root, its locals remaining and state, its callbacks

vars == <<gen, out, st, world, prog, last, walk>>

-----------------------------------------------------------------------------
(* Bounds of the model *)

MaxVal == 2     \* literal payloads are 1..MaxVal
MaxLen == 2     \* longest literal source list
MaxN == 3       \* largest limit budget
MaxW == 2       \* largest branch weight of a Choices
MaxCalls == 6   \* the driver makes at most this many Next calls
MaxOps == 3     \* most operands of a Seq

-----------------------------------------------------------------------------
(* Values: payloads are naturals; the two sentinels and Go's nil
   interface{} are distinguished values outside the payload range. *)

Pending == -1
StopIteration == -2
NilValue == -3

IsPending(x) == x = Pending
IsStopIteration(x) == x = StopIteration
IsInt(x) == x >= 0

Nil == [k |-> "nil"]

-----------------------------------------------------------------------------
(* Outcomes of a Next call *)

Ret(x, ng, w1) == [x |-> x, ng |-> ng, w |-> w1, panic |-> FALSE]

\* a method call on a nil Generator interface: runtime panic
NilDeref(w1) == [x |-> NilValue, ng |-> Nil, w |-> w1, panic |-> TRUE]

\* A panic inside a call unwinds through its callers: every Next operator
\* below passes a panicking outcome of an inner call on unchanged.

-----------------------------------------------------------------------------
(* Operands of type interface{}: a Generator (a generator record, or Nil
   for a nil interface), a literal payload, or a callable, niladic
   (func() interface{}) or taking the context (func(context.Context)
   interface{}), that returns the operand ret on every invocation. *)

Lit(n) == [k |-> "lit", val |-> n]
Func(ret) == [k |-> "func", ret |-> ret]
FuncCtx(ret) == [k |-> "funcCtx", ret |-> ret]

(* Primitive constructors *)

None == Nil

Some(val) ==
    CASE val.k = "lit" -> [k |-> "some", val |-> val.val]
      [] val.k = "func" -> [k |-> "fn0", ret |-> val.ret]
      [] val.k = "funcCtx" -> [k |-> "fn1", ret |-> val.ret]
      [] val.k = "nil" -> [k |-> "some", val |-> NilValue]
      [] OTHER -> val

Cons(head, tail) ==
    IF head = Nil THEN tail
    ELSE IF tail = Nil THEN head
    ELSE [k |-> "cons", head |-> head, tail |-> tail]

NonNil(gs) == SelectSeq(gs, LAMBDA x : x # Nil)

\* a WrapAllNonNil that wraps the nil operands as well
WrapAllKeepsNil(xs) == [i \in 1..Len(xs) |-> Some(xs[i])]

WrapAllNonNil(xs) ==
    LET live == NonNil(xs)
    IN  [i \in 1..Len(live) |-> Some(live[i])]

seq(gs) == [k |-> "seq", gs |-> gs]

SeqGen(xs) ==
    LET gs == WrapAllNonNil(xs)
    IN  IF Len(gs) = 0 THEN Nil ELSE seq(gs)

mix(gs) == [k |-> "mix", gs |-> gs]

Mix(xs) ==
    LET gs == WrapAllNonNil(xs)
    IN  IF Len(gs) = 0 THEN Nil ELSE mix(gs)

Map(f, g) == IF g = Nil THEN Nil ELSE [k |-> "mapper", inner |-> g, f |-> f]

FlatMap(f, g) ==
    IF g = Nil THEN Nil ELSE [k |-> "flatMapper", inner |-> g, f |-> f]

\* the closure Filter builds around the predicate f
Filter(f, g) == FlatMap([fn |-> "filter", pred |-> f], g)

\* a Limit that accepts a budget of zero
LimitAllowsZero(n, g) ==
    IF g = Nil \/ n < 0 THEN Nil
    ELSE [k |-> "limit", inner |-> g, remaining |-> n]

Limit(n, g) ==
    IF g = Nil \/ n <= 0 THEN Nil
    ELSE [k |-> "limit", inner |-> g, remaining |-> n]

Once(g) == Limit(1, g)

repeat(orig, iter) == [k |-> "repeat", orig |-> orig, iter |-> iter]

Repeat(g) == IF g = Nil THEN Nil ELSE repeat(g, g)

\* type GeneratorWithProb and its Valid method
Branch(g, prob) == [gen |-> g, prob |-> prob]

\* a Valid that does not look at the generator
ValidIgnoresNil(b) == b.prob > 0

Valid(b) == b.prob > 0 /\ b.gen # Nil

Choices(bs) == [k |-> "choices", bs |-> bs]

-----------------------------------------------------------------------------
(* The world: chans[c] is the state of timer channel c, the channel of one
   time.After call.  It is "armed" until the runtime delivers the time,
   "ready" while the time sits in the channel's buffer, and "taken" once
   a receive has removed it: such a channel never delivers again.
   A ticker's channel (time.NewTicker) delivers again and again: it is
   "tick-armed" or "tick-ready", and a receive arms it again.
   fcalls counts the invocations of stagger's timer factory, calls those
   of the callables wrapped by Some. *)

NilChan == 0

\* time.After: a new channel, not yet fired
After(w1) == [w1 EXCEPT !.chans = Append(@, "armed")]

\* a receive from ch can proceed
Ready(w1, ch) == w1.chans[ch] \in {"ready", "tick-ready"}

\* ch has not delivered yet, and will
Armed(w1, ch) == w1.chans[ch] \in {"armed", "tick-armed"}

Receive(w1, ch) ==
    [w1 EXCEPT !.chans[ch] = IF @ = "tick-ready" THEN "tick-armed" ELSE "taken"]

timeLimit(inner, ch) == [k |-> "timeLimit", inner |-> inner, ch |-> ch]

\* ch is the channel time.After(d) returned
TimeLimit(d, g, ch) == IF g = Nil \/ d <= 0 THEN Nil ELSE timeLimit(g, ch)

stagger(inner, ch, f) == [k |-> "stagger", inner |-> inner, ch |-> ch, f |-> f]

StaggerFn(f, g) ==
    IF g = Nil THEN Nil
    ELSE IF f = "nil" THEN g
    ELSE stagger(g, NilChan, f)

\* a Stagger that paces whatever the duration
StaggerAlwaysPaces(d, g) == StaggerFn("after", g)

Stagger(d, g) == IF d <= 0 THEN g ELSE StaggerFn("after", g)

-----------------------------------------------------------------------------
(* The functions handed to Map, FlatMap and Filter, named as in the tests. *)

double(x) == IF IsInt(x) THEN x * 2 ELSE Pending

even(x) == IF IsInt(x) THEN x % 2 = 0 ELSE FALSE

\* Map's f
ApplyMap(f, x) ==
    CASE f = "id" -> x
      [] f = "pending" -> Pending
      [] f = "double" -> double(x)

\* Filter's predicate
ApplyPred(p, x) ==
    CASE p = "even" -> even(x)
      [] p = "odd" -> ~even(x)
      [] p = "all" -> TRUE
      [] p = "never" -> FALSE

\* FlatMap's f: a Generator, possibly nil
ApplyFlat(f, x) ==
    CASE f.fn = "id" -> Some(Lit(x))
      [] f.fn = "repeat" -> Cons(Some(Lit(x)), Some(Lit(x)))
      [] f.fn = "filter" -> IF ApplyPred(f.pred, x) THEN Some(Lit(x)) ELSE Nil

-----------------------------------------------------------------------------
(* Next, per Go type.  Each operator gives the set of outcomes of
   g.Next(ctx) in world w1; ctx.done says whether ctx.Done() is closed. *)

RECURSIVE GenNext(_, _, _)

someNext(g, ctx, w1) == {Ret(g.val, Nil, w1)}

\* a cons.Next that forgets the tail when the head is exhausted
consNextDropsTail(g, ctx, w1) ==
    IF g.head = Nil
    THEN IF g.tail = Nil
         THEN {Ret(StopIteration, Nil, w1)}
         ELSE GenNext(g.tail, ctx, w1)
    ELSE {IF o.panic THEN o
          ELSE Ret(o.x,
                   IF o.ng = Nil
                   THEN Nil
                   ELSE [k |-> "cons", head |-> o.ng, tail |-> g.tail],
                   o.w)
          : o \in GenNext(g.head, ctx, w1)}

consNext(g, ctx, w1) ==
    IF g.head = Nil
    THEN IF g.tail = Nil
         THEN {Ret(StopIteration, Nil, w1)}
         ELSE GenNext(g.tail, ctx, w1)
    ELSE {IF o.panic THEN o
          ELSE Ret(o.x,
                   IF o.ng = Nil
                   THEN g.tail
                   ELSE [k |-> "cons", head |-> o.ng, tail |-> g.tail],
                   o.w)
          : o \in GenNext(g.head, ctx, w1)}

\* the callable is invoked: one more invocation, its result is g.ret
Invoke(w1) == [w1 EXCEPT !.calls = @ + 1]

\* a fn0.Next whose continuation is what is left of the wrapped result
fn0NextOneShot(g, ctx, w1) == GenNext(Cons(Some(g.ret), Nil), ctx, Invoke(w1))

\* g() is invoked once; its result is wrapped and consed in front of g
fn0Next(g, ctx, w1) == GenNext(Cons(Some(g.ret), g), ctx, Invoke(w1))

\* g(ctx) is invoked once; its result is wrapped and consed in front of g
fn1Next(g, ctx, w1) == GenNext(Cons(Some(g.ret), g), ctx, Invoke(w1))

RECURSIVE FirstNonNil(_, _)
\* the index the range loop of seq.Next stops at, 0 when it runs off the end
FirstNonNil(gs, i) ==
    IF i > Len(gs) THEN 0
    ELSE IF gs[i] = Nil THEN FirstNonNil(gs, i + 1)
    ELSE i

seqNext(g, ctx, w1) ==
    LET i == FirstNonNil(g.gs, 1)
        tail == SubSeq(g.gs, i + 1, Len(g.gs))
    IN  IF i = 0 THEN {Ret(StopIteration, Nil, w1)}
        ELSE IF Len(tail) = 0 THEN GenNext(g.gs[i], ctx, w1)
        ELSE GenNext(Cons(g.gs[i], seq(tail)), ctx, w1)

\* a mix.Next that ends as soon as any branch is exhausted
mixNextEndsEarly(g, ctx, w1) ==
    LET alts == NonNil(g.gs)
    IN  IF Len(alts) = 0 THEN {Ret(StopIteration, Nil, w1)}
        ELSE UNION {{IF o.panic THEN o
                     ELSE IF o.ng = Nil
                          THEN Ret(o.x, Nil, o.w)
                          ELSE Ret(o.x, mix([alts EXCEPT ![i] = o.ng]), o.w)
                     : o \in GenNext(alts[i], ctx, w1)}
                    : i \in 1..Len(alts)}

\* i ranges over rand.Intn(len(alts))
mixNext(g, ctx, w1) ==
    LET alts == NonNil(g.gs)
    IN  IF Len(alts) = 0 THEN {Ret(StopIteration, Nil, w1)}
        ELSE UNION {{IF o.panic THEN o
                     ELSE IF Len(alts) = 1 /\ o.ng = Nil
                          THEN Ret(o.x, Nil, o.w)
                          ELSE Ret(o.x, mix([alts EXCEPT ![i] = o.ng]), o.w)
                     : o \in GenNext(alts[i], ctx, w1)}
                    : i \in 1..Len(alts)}

\* a mapper.Next that hands the sentinels on without applying f
mapperNextSkipsSentinels(g, ctx, w1) ==
    IF g.inner = Nil THEN {Ret(StopIteration, Nil, w1)}
    ELSE {IF o.panic THEN o
          ELSE Ret(IF IsPending(o.x) \/ IsStopIteration(o.x)
                   THEN o.x ELSE ApplyMap(g.f, o.x),
                   Map(g.f, o.ng), o.w)
          : o \in GenNext(g.inner, ctx, w1)}

mapperNext(g, ctx, w1) ==
    IF g.inner = Nil THEN {Ret(StopIteration, Nil, w1)}
    ELSE {IF o.panic THEN o
          ELSE Ret(ApplyMap(g.f, o.x), Map(g.f, o.ng), o.w)
          : o \in GenNext(g.inner, ctx, w1)}

flatMapperNext(g, ctx, w1) ==
    IF g.inner = Nil THEN {Ret(StopIteration, Nil, w1)}
    ELSE UNION {IF o.panic THEN {o}
                ELSE GenNext(Cons(ApplyFlat(g.f, o.x),
                                  IF o.ng # Nil THEN FlatMap(g.f, o.ng) ELSE Nil),
                             ctx, o.w)
                : o \in GenNext(g.inner, ctx, w1)}

\* a limit.Next that does not spend the budget
limitNextKeepsBudget(g, ctx, w1) ==
    IF g.remaining <= 0 \/ g.inner = Nil THEN {Ret(StopIteration, Nil, w1)}
    ELSE {IF o.panic THEN o
          ELSE Ret(o.x, Limit(g.remaining, o.ng), o.w)
          : o \in GenNext(g.inner, ctx, w1)}

limitNext(g, ctx, w1) ==
    IF g.remaining <= 0 \/ g.inner = Nil THEN {Ret(StopIteration, Nil, w1)}
    ELSE {IF o.panic THEN o
          ELSE Ret(o.x, Limit(g.remaining - 1, o.ng), o.w)
          : o \in GenNext(g.inner, ctx, w1)}

\* a repeat.Next that keeps the continuation in place of the original
repeatNextForgetsOrig(g, ctx, w1) ==
    IF g.orig = Nil THEN {Ret(StopIteration, Nil, w1)}
    ELSE LET iter == IF g.iter = Nil THEN g.orig ELSE g.iter
         IN  {IF o.panic THEN o
              ELSE Ret(o.x, repeat(o.ng, o.ng), o.w)
              : o \in GenNext(iter, ctx, w1)}

repeatNext(g, ctx, w1) ==
    IF g.orig = Nil THEN {Ret(StopIteration, Nil, w1)}
    ELSE LET iter == IF g.iter = Nil THEN g.orig ELSE g.iter
         IN  {IF o.panic THEN o
              ELSE Ret(o.x, repeat(g.orig, o.ng), o.w)
              : o \in GenNext(iter, ctx, w1)}

RECURSIVE SumProb(_, _)
\* s of Choices.Next: the sum of the weights of the valid branches from i on
SumProb(bs, i) ==
    IF i > Len(bs) THEN 0
    ELSE (IF Valid(bs[i]) THEN bs[i].prob ELSE 0) + SumProb(bs, i + 1)

RECURSIVE SelectedNonStrict(_, _, _)
\* a scan that stops at the branch where the remainder reaches zero
SelectedNonStrict(bs, i, t) ==
    IF i > Len(bs) THEN 0
    ELSE IF ~Valid(bs[i]) THEN SelectedNonStrict(bs, i + 1, t)
    ELSE IF t - bs[i].prob <= 0 THEN i
    ELSE SelectedNonStrict(bs, i + 1, t - bs[i].prob)

RECURSIVE Selected(_, _, _)
\* the second loop of Choices.Next: the index of the branch at which
\* "t -= g.Prob; !ok && t < 0" first holds, 0 when it holds for none
Selected(bs, i, t) ==
    IF i > Len(bs) THEN 0
    ELSE IF ~Valid(bs[i]) THEN Selected(bs, i + 1, t)
    ELSE IF t - bs[i].prob < 0 THEN i
    ELSE Selected(bs, i + 1, t - bs[i].prob)

RECURSIVE CarryKeepsExhausted(_, _, _, _)
\* ngs that keeps the selected branch also when its continuation is nil
CarryKeepsExhausted(bs, i, sel, ng) ==
    IF i > Len(bs) THEN <<>>
    ELSE (IF ~Valid(bs[i]) THEN <<>>
          ELSE IF i = sel THEN <<Branch(ng, bs[i].prob)>>
               ELSE <<bs[i]>>)
         \o CarryKeepsExhausted(bs, i + 1, sel, ng)

RECURSIVE Carry(_, _, _, _)
\* ngs of Choices.Next: the valid branches from i on, the selected one
\* replaced by its continuation ng, or dropped when ng is nil
Carry(bs, i, sel, ng) ==
    IF i > Len(bs) THEN <<>>
    ELSE (IF ~Valid(bs[i]) THEN <<>>
          ELSE IF i = sel
               THEN (IF ng # Nil THEN <<Branch(ng, bs[i].prob)>> ELSE <<>>)
               ELSE <<bs[i]>>)
         \o Carry(bs, i + 1, sel, ng)

\* t ranges over rand.Float64() * s, taken at the integers 0..s-1
ChoicesNext(g, ctx, w1) ==
    LET s == SumProb(g.bs, 1)
        n == Cardinality({i \in 1..Len(g.bs) : Valid(g.bs[i])})
        draw(t) ==
            LET sel == Selected(g.bs, 1, t)
            IN  IF sel = 0
                THEN {Ret(NilValue, Choices(Carry(g.bs, 1, 0, Nil)), w1)}
                ELSE {IF o.panic THEN o
                      ELSE LET ngs == Carry(g.bs, 1, sel, o.ng)
                           IN  Ret(o.x,
                                   IF Len(ngs) = 0 THEN Nil ELSE Choices(ngs),
                                   o.w)
                      : o \in GenNext(g.bs[sel].gen, ctx, w1)}
    IN  IF n = 0 THEN {Ret(StopIteration, Nil, w1)}
        ELSE UNION {draw(t) : t \in IF s > 0 THEN 0..(s - 1) ELSE {0}}

\* select with a default: one of the ready cases, chosen by the runtime;
\* the default only when neither is ready
timeLimitNext(g, ctx, w1) ==
    IF g.inner = Nil THEN {Ret(StopIteration, Nil, w1)}
    ELSE LET fired == Ready(w1, g.ch)
         IN  (IF ctx.done THEN {Ret(Pending, g, w1)} ELSE {})
             \cup
             (IF fired THEN {Ret(StopIteration, Nil, Receive(w1, g.ch))} ELSE {})
             \cup
             (IF ~ctx.done /\ ~fired
              THEN {IF o.panic THEN o
                    ELSE Ret(o.x,
                             IF o.ng # Nil THEN timeLimit(o.ng, g.ch) ELSE Nil,
                             o.w)
                    : o \in GenNext(g.inner, ctx, w1)}
              ELSE {})

\* the channel of the ticker the "ticker" factory hands out
TickerChan == 1

\* g.f(): the factory of Stagger returns a fresh time.After channel, the
\* one of TestStagger/StaggerFn the channel of one ticker
CallFactory(f, w1) ==
    IF f = "ticker"
    THEN [w |-> [w1 EXCEPT !.fcalls = @ + 1], ch |-> TickerChan]
    ELSE [w |-> [After(w1) EXCEPT !.fcalls = @ + 1], ch |-> Len(w1.chans) + 1]

\* select without a default: a ready case chosen by the runtime; when none
\* is ready the call waits, and a context that is not done at the call
\* stays so, hence the wait ends with the timer firing
\* a stagger.Next whose Pending continuation is the receiver as it was
\* called, without the timer obtained in the call
staggerNextForgetsTimer(g, ctx, w1) ==
    IF g.inner = Nil THEN {Ret(StopIteration, Nil, w1)}
    ELSE LET c0 == IF g.ch = NilChan
                   THEN CallFactory(g.f, w1)
                   ELSE [w |-> w1, ch |-> g.ch]
         IN  (IF ctx.done THEN {Ret(Pending, g, c0.w)} ELSE {})
             \cup
             (IF Ready(c0.w, c0.ch) \/ (Armed(c0.w, c0.ch) /\ ~ctx.done)
              THEN {IF o.panic THEN o
                    ELSE IF o.ng # Nil
                         THEN LET c1 == CallFactory(g.f, o.w)
                              IN  Ret(o.x, stagger(o.ng, c1.ch, g.f), c1.w)
                         ELSE Ret(o.x, Nil, o.w)
                    : o \in GenNext(g.inner, ctx, Receive(c0.w, c0.ch))}
              ELSE {})

staggerNext(g, ctx, w1) ==
    IF g.inner = Nil THEN {Ret(StopIteration, Nil, w1)}
    ELSE LET c0 == IF g.ch = NilChan
                   THEN CallFactory(g.f, w1)
                   ELSE [w |-> w1, ch |-> g.ch]
             g2 == [g EXCEPT !.ch = c0.ch]
         IN  (IF ctx.done THEN {Ret(Pending, g2, c0.w)} ELSE {})
             \cup
             (IF Ready(c0.w, c0.ch) \/ (Armed(c0.w, c0.ch) /\ ~ctx.done)
              THEN {IF o.panic THEN o
                    ELSE IF o.ng # Nil
                         THEN LET c1 == CallFactory(g.f, o.w)
                              IN  Ret(o.x, stagger(o.ng, c1.ch, g.f), c1.w)
                         ELSE Ret(o.x, Nil, o.w)
                    : o \in GenNext(g.inner, ctx, Receive(c0.w, c0.ch))}
              ELSE {})

\* dynamic dispatch on the Generator interface; a call on nil panics
GenNext(g, ctx, w1) ==
    CASE g.k = "nil" -> {NilDeref(w1)}
      [] g.k = "some" -> someNext(g, ctx, w1)
      [] g.k = "fn0" -> fn0Next(g, ctx, w1)
      [] g.k = "fn1" -> fn1Next(g, ctx, w1)
      [] g.k = "cons" -> consNext(g, ctx, w1)
      [] g.k = "seq" -> seqNext(g, ctx, w1)
      [] g.k = "mix" -> mixNext(g, ctx, w1)
      [] g.k = "mapper" -> mapperNext(g, ctx, w1)
      [] g.k = "flatMapper" -> flatMapperNext(g, ctx, w1)
      [] g.k = "limit" -> limitNext(g, ctx, w1)
      [] g.k = "repeat" -> repeatNext(g, ctx, w1)
      [] g.k = "choices" -> ChoicesNext(g, ctx, w1)
      [] g.k = "timeLimit" -> timeLimitNext(g, ctx, w1)
      [] g.k = "stagger" -> staggerNext(g, ctx, w1)

-----------------------------------------------------------------------------
(* Update, one operator per Generator implementation.  Update takes the
   context only: it returns a generator and touches neither a timer
   channel nor a callable. *)

RECURSIVE GenUpdate(_)

\* UpdateAll: the non-nil Updates of the non-nil entries, in order
UpdateAll(gs) ==
    LET live == NonNil(gs)
    IN  NonNil([i \in 1..Len(live) |-> GenUpdate(live[i])])

\* head and tail are replaced in place: the result is a cons value even
\* when both Updates returned nil
consUpdate(g) ==
    [k |-> "cons",
     head |-> IF g.head # Nil THEN GenUpdate(g.head) ELSE Nil,
     tail |-> IF g.tail # Nil THEN GenUpdate(g.tail) ELSE Nil]

seqUpdate(g) ==
    LET ng == UpdateAll(g.gs)
    IN  IF Len(ng) = 0 THEN Nil ELSE seq(ng)

mixUpdate(g) ==
    LET ng == UpdateAll(g.gs)
    IN  IF Len(ng) = 0 THEN Nil ELSE mix(ng)

mapperUpdate(g) == IF g.inner = Nil THEN Nil ELSE Map(g.f, GenUpdate(g.inner))

flatMapperUpdate(g) ==
    IF g.inner = Nil THEN Nil ELSE FlatMap(g.f, GenUpdate(g.inner))

limitUpdate(g) ==
    IF g.inner = Nil THEN Nil ELSE Limit(g.remaining, GenUpdate(g.inner))

\* a repeat.Update that starts the cycle over
repeatUpdateRestarts(g) ==
    IF g.orig = Nil THEN Nil ELSE repeat(g.orig, GenUpdate(g.orig))

repeatUpdate(g) ==
    IF g.orig = Nil THEN Nil
    ELSE LET iter == IF g.iter = Nil THEN g.orig ELSE g.iter
         IN  repeat(g.orig, GenUpdate(iter))

RECURSIVE UpdateBranchesKeepsInvalid(_, _)
\* a loop that updates every branch that has a generator, whatever its weight
UpdateBranchesKeepsInvalid(bs, i) ==
    IF i > Len(bs) THEN <<>>
    ELSE LET ng == IF bs[i].gen # Nil THEN GenUpdate(bs[i].gen) ELSE Nil
         IN  (IF ng # Nil THEN <<Branch(ng, bs[i].prob)>> ELSE <<>>)
             \o UpdateBranchesKeepsInvalid(bs, i + 1)

RECURSIVE UpdateBranches(_, _)
\* the loop of Choices.Update from branch i on
UpdateBranches(bs, i) ==
    IF i > Len(bs) THEN <<>>
    ELSE LET ng == IF Valid(bs[i]) THEN GenUpdate(bs[i].gen) ELSE Nil
         IN  (IF ng # Nil THEN <<Branch(ng, bs[i].prob)>> ELSE <<>>)
             \o UpdateBranches(bs, i + 1)

ChoicesUpdate(g) ==
    LET bs == UpdateBranches(g.bs, 1)
    IN  IF Len(bs) = 0 THEN Nil ELSE Choices(bs)

timeLimitUpdate(g) ==
    IF g.inner = Nil THEN Nil
    ELSE LET ng == GenUpdate(g.inner)
         IN  IF ng = Nil THEN Nil ELSE timeLimit(ng, g.ch)

staggerUpdate(g) ==
    IF g.inner = Nil THEN Nil
    ELSE LET ng == GenUpdate(g.inner)
         IN  IF ng = Nil THEN Nil ELSE stagger(ng, g.ch, g.f)

\* g.Update(ctx) on a non-nil g; some, fn0 and fn1 return themselves
GenUpdate(g) ==
    CASE g.k \in {"some", "fn0", "fn1"} -> g
      [] g.k = "cons" -> consUpdate(g)
      [] g.k = "seq" -> seqUpdate(g)
      [] g.k = "mix" -> mixUpdate(g)
      [] g.k = "mapper" -> mapperUpdate(g)
      [] g.k = "flatMapper" -> flatMapperUpdate(g)
      [] g.k = "limit" -> limitUpdate(g)
      [] g.k = "repeat" -> repeatUpdate(g)
      [] g.k = "choices" -> ChoicesUpdate(g)
      [] g.k = "timeLimit" -> timeLimitUpdate(g)
      [] g.k = "stagger" -> staggerUpdate(g)

-----------------------------------------------------------------------------
(* The generators under drive.  prog names a construction and its
   arguments; Build(prog) is the generator the construction returns. *)

Lists == UNION {[1..n -> 1..MaxVal] : n \in 0..MaxLen}

\* n distinct payloads, disjoint from those of every other block
Block(i, n) == [j \in 1..n |-> (i - 1) * (MaxLen + 1) + j]

\* Seq(x1, ..., xn) over literals
FromList(xs) == SeqGen([i \in 1..Len(xs) |-> Lit(xs[i])])

RECURSIVE Chain(_)
\* Cons(Some(x1), Cons(Some(x2), ...))
Chain(xs) ==
    IF Len(xs) = 0 THEN Nil ELSE Cons(Some(Lit(Head(xs))), Chain(Tail(xs)))

Source(shape, xs) == IF shape = "seq" THEN FromList(xs) ELSE Chain(xs)

ConsProgs ==
    [name : {"cons"}, shape : {"seq", "chain"}, left : BOOLEAN,
     la : 0..MaxLen, lb : 0..MaxLen, lc : 0..MaxLen]

FilterProgs == [name : {"filter"}, pred : {"even", "odd", "all", "never"}, xs : Lists]

FlatMapProgs == [name : {"flatMap"}, fn : {"id", "repeat", "filter"}, xs : Lists]

LimitProgs ==
    [name : {"limit"}, n : 0..MaxN, src : {"list", "repeat"}, xs : Lists]
    \cup
    [name : {"limit"}, n : 0..MaxN, src : {"func"}, xs : {<<v>> : v \in 1..MaxVal}]

RepeatProgs ==
    [name : {"repeat"}, shape : {"seq", "chain"}, xs : Lists \ {<<>>}]

MixProgs ==
    [name : {"mix"}, shape : {"seq", "chain"}, l1 : 0..MaxLen, l2 : 0..MaxLen,
     third : {"nil", "lit"}]

ChoicesProgs ==
    [name : {"choices"}, l1 : 0..MaxLen, l2 : 0..MaxLen, p1 : 0..MaxW, p2 : 0..MaxW,
     third : {"nilgen", "zero", "one"}]

\* compositions around a TimeLimit (its time.After channel is channel 1)
\* or a Stagger, both with a positive duration, and a StaggerFn paced by
\* a ticker
PacedProgs ==
    [name : {"paced"},
     wrap : {"timeLimit", "repeat", "cons", "map", "stagger", "staggerFn"},
     n : {0}, xs : Lists \ {<<>>}]
    \cup
    [name : {"paced"}, wrap : {"limit", "limitStagger"},
     n : 1..MaxN, xs : Lists \ {<<>>}]

\* constructions with a degenerate argument: d is the non-positive count
\* or duration, xs the source the other argument is built from
DegenerateCtors ==
    {"limit0", "limitNil", "timeLimit0", "timeLimitNil", "seq0", "seqNil",
     "mix0", "mixNil", "repeatNil", "mapNil", "flatMapNil", "staggerFnNil",
     "consNilNil", "consNilT", "consHNil"}

DegenerateProgs ==
    [name : {"degenerate"}, ctor : DegenerateCtors \cup {"stagger0"},
     d : {-1, 0}, xs : Lists]

\* Seq over operands that are each a nil, a literal, a nested Seq of
\* MaxLen literals or a nested Seq()
OperandKinds == {"nil", "lit", "seq", "empty"}

SeqProgs == [name : {"seq"}, ops : UNION {[1..n -> OperandKinds] : n \in 0..MaxOps}]

\* the payloads and the two sentinels, as literal operands
Sentinels == {Pending, StopIteration}

SentinelLists == UNION {[1..n -> (1..MaxVal) \cup Sentinels] : n \in 0..MaxLen}

MapProgs == [name : {"map"}, f : {"id", "pending", "double"}, xs : SentinelLists]

\* Some(c) for a callable c, niladic or taking the context, that returns
\* on every invocation the same result: the payload v, nil, a sentinel, or
\* a Generator (Some(v), or a Seq of MaxLen literals)
ResultKinds == {"val", "nil", "pending", "stop", "some", "seq"}

CallableProgs ==
    [name : {"callable"}, kind : {"fn0", "fn1"}, res : ResultKinds, v : 1..MaxVal]

\* Choices over a list and a nested Choices that has an eligible branch
\* ("live") or none ("dead": its Update is nil, its Next StopIteration)
PruneProgs ==
    [name : {"prune"}, l1 : 1..MaxLen, p1 : 0..MaxW, p2 : 0..MaxW,
     inner : {"live", "dead"}]

Programs ==
    SeqProgs \cup MapProgs \cup CallableProgs \cup PruneProgs \cup
    ConsProgs \cup FilterProgs \cup FlatMapProgs \cup LimitProgs \cup RepeatProgs
    \cup MixProgs \cup ChoicesProgs \cup PacedProgs \cup DegenerateProgs

BuildDegenerate(p) ==
    LET G == FromList(p.xs)
    IN  CASE p.ctor = "limit0" -> Limit(p.d, G)
          [] p.ctor = "limitNil" -> Limit(1 - p.d, Nil)
          [] p.ctor = "timeLimit0" -> TimeLimit(p.d, G, 1)
          [] p.ctor = "timeLimitNil" -> TimeLimit(1 - p.d, Nil, 1)
          [] p.ctor = "seq0" -> SeqGen(<<>>)
          [] p.ctor = "seqNil" -> SeqGen([i \in 1..(1 - p.d) |-> Nil])
          [] p.ctor = "mix0" -> Mix(<<>>)
          [] p.ctor = "mixNil" -> Mix([i \in 1..(1 - p.d) |-> Nil])
          [] p.ctor = "repeatNil" -> Repeat(Nil)
          [] p.ctor = "mapNil" -> Map("id", Nil)
          [] p.ctor = "flatMapNil" -> FlatMap([fn |-> "id", pred |-> "even"], Nil)
          [] p.ctor = "staggerFnNil" -> StaggerFn("after", Nil)
          [] p.ctor = "consNilNil" -> Cons(Nil, Nil)
          [] p.ctor = "consNilT" -> Cons(Nil, G)
          [] p.ctor = "consHNil" -> Cons(G, Nil)
          [] p.ctor = "stagger0" -> Stagger(p.d, G)

\* operand i of a Seq program
Operand(kind, i) ==
    CASE kind = "nil" -> Nil
      [] kind = "lit" -> Lit(Block(i, 1)[1])
      [] kind = "seq" -> FromList(Block(i, MaxLen))
      [] kind = "empty" -> SeqGen(<<>>)

\* what the callable of a Callable program returns, as an operand
Result(p) ==
    CASE p.res = "val" -> Lit(p.v)
      [] p.res = "nil" -> Nil
      [] p.res = "pending" -> Lit(Pending)
      [] p.res = "stop" -> Lit(StopIteration)
      [] p.res = "some" -> Some(Lit(p.v))
      [] p.res = "seq" -> FromList(Block(1, MaxLen))

Build(p) ==
    CASE p.name = "prune" ->
            Choices(<<Branch(FromList(Block(1, p.l1)), p.p1),
                      Branch(Choices(<<IF p.inner = "live"
                                       THEN Branch(Some(Lit(Block(2, 1)[1])), 1)
                                       ELSE Branch(Some(Lit(Block(2, 1)[1])), 0)>>),
                             p.p2)>>)
      [] p.name = "callable" ->
            Some(IF p.kind = "fn0" THEN Func(Result(p)) ELSE FuncCtx(Result(p)))
      [] p.name = "seq" -> SeqGen([i \in 1..Len(p.ops) |-> Operand(p.ops[i], i)])
      [] p.name = "map" -> Map(p.f, FromList(p.xs))
      [] p.name = "cons" ->
            LET A == Source(p.shape, Block(1, p.la))
                B == Source(p.shape, Block(2, p.lb))
                C == Source(p.shape, Block(3, p.lc))
            IN  IF p.left THEN Cons(Cons(A, B), C) ELSE Cons(A, Cons(B, C))
      [] p.name = "filter" -> Filter(p.pred, FromList(p.xs))
      [] p.name = "flatMap" ->
            FlatMap([fn |-> p.fn, pred |-> "even"], FromList(p.xs))
      [] p.name = "limit" ->
            Limit(p.n, CASE p.src = "list" -> FromList(p.xs)
                         [] p.src = "repeat" -> Repeat(FromList(p.xs))
                         [] p.src = "func" -> Some(Func(Lit(p.xs[1]))))
      [] p.name = "repeat" -> Repeat(Source(p.shape, p.xs))
      [] p.name = "mix" ->
            Mix(<<Source(p.shape, Block(1, p.l1)),
                  Source(p.shape, Block(2, p.l2)),
                  IF p.third = "lit" THEN Lit(Block(3, 1)[1]) ELSE Nil>>)
      [] p.name = "choices" ->
            Choices(<<Branch(FromList(Block(1, p.l1)), p.p1),
                      Branch(FromList(Block(2, p.l2)), p.p2),
                      CASE p.third = "nilgen" -> Branch(Nil, 1)
                        [] p.third = "zero" -> Branch(Some(Lit(Block(3, 1)[1])), 0)
                        [] p.third = "one" -> Branch(Some(Lit(Block(3, 1)[1])), 1)>>)
      [] p.name = "degenerate" -> BuildDegenerate(p)
      [] p.name = "paced" ->
            LET T == TimeLimit(1, FromList(p.xs), 1)
                S == Stagger(1, FromList(p.xs))
            IN  CASE p.wrap = "timeLimit" -> T
                  [] p.wrap = "repeat" -> Repeat(T)
                  [] p.wrap = "cons" -> Cons(T, Some(Lit(Block(3, 1)[1])))
                  [] p.wrap = "map" -> Map("id", T)
                  [] p.wrap = "limit" -> Limit(p.n, T)
                  [] p.wrap = "stagger" -> S
                  [] p.wrap = "staggerFn" -> StaggerFn("ticker", FromList(p.xs))
                  [] p.wrap = "limitStagger" -> Limit(p.n, S)

\* the timer channels that exist once p is constructed: the time.After
\* channel of a TimeLimit, the channel of the ticker of a StaggerFn
BuildChans(p) ==
    IF p.name = "paced" /\ p.wrap = "staggerFn" THEN <<"tick-armed">>
    ELSE IF p.name = "paced" /\ p.wrap \notin {"stagger", "limitStagger"}
    THEN <<"armed">>
    ELSE <<>>

-----------------------------------------------------------------------------
(* The driver: it calls Next on the current generator and adopts the
   continuation, until the continuation is nil. *)

\* no Walk is running
NoWalk ==
    [root |-> Nil, remaining |-> <<>>, state |-> <<>>, cbs |-> <<>>, fault |-> FALSE]

NoCall ==
    [called |-> FALSE, done |-> FALSE, pre |-> Nil,
     w |-> [chans |-> <<>>, fcalls |-> 0, calls |-> 0],
     x |-> NilValue, ng |-> Nil]

Init ==
    /\ prog \in Programs
    /\ gen = Build(prog)
    /\ out = <<>>
    /\ st = IF gen = Nil THEN "done" ELSE "running"
    /\ world = [chans |-> BuildChans(prog), fcalls |-> 0, calls |-> 0]
    /\ last = NoCall
    /\ walk = NoWalk

\* x, g = g.Next(ctx), with a context that is done or not
CallNext(done) ==
    /\ st = "running"
    /\ Len(out) < MaxCalls
    /\ \E o \in GenNext(gen, [done |-> done], world) :
          /\ gen' = o.ng
          /\ out' = IF o.panic THEN out ELSE Append(out, o.x)
          /\ st' = IF o.panic THEN "panic"
                   ELSE IF o.ng = Nil THEN "done" ELSE "running"
          /\ world' = o.w
          /\ last' = [called |-> TRUE, done |-> done, pre |-> gen, w |-> world,
                      x |-> o.x, ng |-> o.ng]
    /\ UNCHANGED <<prog, walk>>

\* g = g.Update(ctx), between two Next calls
CallUpdate ==
    /\ st = "running"
    /\ gen' = GenUpdate(gen)
    /\ st' = IF gen' = Nil THEN "done" ELSE "running"
    /\ UNCHANGED <<out, world, prog, last, walk>>

\* the runtime delivers the time on timer channel c
Fire(c) ==
    /\ Armed(world, c)
    /\ world' = [world EXCEPT !.chans[c] = IF @ = "armed" THEN "ready" ELSE "tick-ready"]
    /\ UNCHANGED <<gen, out, st, prog, last, walk>>

Next ==
    \/ \E done \in BOOLEAN : CallNext(done)
    \/ CallUpdate
    \/ \E c \in DOMAIN world.chans : Fire(c)

Spec == Init /\ [][Next]_vars

-----------------------------------------------------------------------------
(* Package perms: a Rule is a list of alternatives, an Alt a list of
   elements, an Elem a value or a rule.  Values of the three interfaces,
   the marker type end of Walk and the operands that are none of them are
   records tagged by their Go type (field t). *)

MaxAlts == 2    \* most alternatives of the OneOf rules under walk
Slots == 3      \* the OneOf rules a rule under walk is made of

R(as) == [t |-> "alts", alts |-> as]
A(elems) == [t |-> "alt", elems |-> elems]
V(x) == [t |-> "some", x |-> x]
E(r) == [t |-> "ruleElem", r |-> r]

\* an operand of Seq or OneOf that is neither an Elem, an Alt nor a Rule
Value(x) == [t |-> "value", x |-> x]

\* Seq of package perms
RuleSeq(xs) ==
    R(<<A([i \in 1..Len(xs) |->
             CASE xs[i].t \in {"some", "ruleElem"} -> xs[i]
               [] xs[i].t = "alt" -> E(R(<<xs[i]>>))
               [] xs[i].t = "alts" -> E(xs[i])
               [] OTHER -> V(xs[i].x)])>>)

OneOf(xs) ==
    R([i \in 1..Len(xs) |->
          CASE xs[i].t = "alt" -> xs[i]
            [] xs[i].t = "alts" ->
                  IF Len(xs[i].alts) = 1 THEN xs[i].alts[1] ELSE A(<<E(xs[i])>>)
            [] xs[i].t \in {"some", "ruleElem"} -> A(<<xs[i]>>)
            [] OTHER -> A(<<V(xs[i].x)>>)])

Empty == A(<<>>)

\* the marker Walk pushes under a region of the stack
End(n) == [t |-> "end", n |-> n]

(* The rules under walk: Slots OneOf rules, each over 0..MaxAlts
   alternatives that are Empty() or a value, put together as a Seq, with
   the last two as a Seq inside a OneOf, or with the first two as the
   operands of a OneOf. *)

AltKinds == {"empty", "val"}

OneOfSpecs == UNION {[1..n -> AltKinds] : n \in 0..MaxAlts}

WalkProgs == [shape : {"flat", "inner", "union"}, slots : [1..Slots -> OneOfSpecs]]

\* the value of alternative j of OneOf rule i: distinct for distinct (i, j)
AltValue(i, j) == i * (MaxAlts + 1) + j

Slot(p, i) ==
    OneOf([j \in 1..Len(p.slots[i]) |->
              IF p.slots[i][j] = "empty" THEN Empty ELSE Value(AltValue(i, j))])

Root(p) ==
    CASE p.shape = "flat" -> RuleSeq(<<Slot(p, 1), Slot(p, 2), Slot(p, 3)>>)
      [] p.shape = "inner" ->
            RuleSeq(<<Slot(p, 1),
                      OneOf(<<RuleSeq(<<Slot(p, 2), Slot(p, 3)>>), Value(0)>>)>>)
      [] p.shape = "union" ->
            RuleSeq(<<OneOf(<<Slot(p, 1), Slot(p, 2)>>), Slot(p, 3)>>)

(* Walk: one action per case of the type switch on the popped entry. *)

\* pop(): the entry on top of the stack, and the stack without it
Top == walk.remaining[Len(walk.remaining)]
Popped == SubSeq(walk.remaining, 1, Len(walk.remaining) - 1)

\* lastRegion(): the position of the topmost end marker of rem, 0 if none
LastRegion(rem) ==
    LET ends == {i \in 1..Len(rem) : rem[i].t = "end"}
    IN  IF ends = {} THEN 0 ELSE CHOOSE i \in ends : \A j \in ends : j <= i

RECURSIVE PushAlts(_, _, _, _)
\* the loop over k = size-2 .. 0: a marker holding len(state), a copy of
\* the region, and the alternative
PushAlts(alts, k, n, region) ==
    IF k = 0 THEN <<>>
    ELSE <<End(n)>> \o region \o <<alts[k]>> \o PushAlts(alts, k - 1, n, region)

Reverse(s) == [i \in 1..Len(s) |-> s[Len(s) + 1 - i]]

\* case Rule; slicing without a marker below is a run-time panic
WalkRule ==
    /\ walk.remaining # <<>> /\ ~walk.fault
    /\ Top.t = "alts"
    /\ LET alts == Top.alts
           size == Len(alts)
           i == LastRegion(Popped)
           region == SubSeq(Popped, i + 1, Len(Popped))
       IN  walk' =
             IF size = 0 THEN [walk EXCEPT !.remaining = Popped]
             ELSE IF size > 1 /\ i = 0 THEN [walk EXCEPT !.fault = TRUE]
             ELSE [walk EXCEPT !.remaining =
                      Popped \o <<alts[size]>>
                      \o PushAlts(alts, size - 1, Len(walk.state), region)]
    /\ UNCHANGED <<gen, out, st, world, prog, last>>

\* case Alt
WalkAlt ==
    /\ walk.remaining # <<>> /\ ~walk.fault
    /\ Top.t = "alt"
    /\ walk' = [walk EXCEPT !.remaining = Popped \o Reverse(Top.elems)]
    /\ UNCHANGED <<gen, out, st, world, prog, last>>

\* case Elem
WalkElem ==
    /\ walk.remaining # <<>> /\ ~walk.fault
    /\ Top.t \in {"some", "ruleElem"}
    /\ walk' = IF Top.t = "ruleElem"
               THEN [walk EXCEPT !.remaining = Append(Popped, Top.r)]
               ELSE [walk EXCEPT !.remaining = Popped,
                                 !.state = Append(@, Top.x)]
    /\ UNCHANGED <<gen, out, st, world, prog, last>>

\* a case end that calls back and leaves the state as it is
WalkEndKeepsState ==
    /\ walk.remaining # <<>> /\ ~walk.fault
    /\ Top.t = "end"
    /\ walk' = [walk EXCEPT !.remaining = Popped, !.cbs = Append(@, walk.state)]
    /\ UNCHANGED <<gen, out, st, world, prog, last>>

\* case end: cb(state...), then state = state[:v]; a v beyond len(state)
\* would bring back cells written earlier, the model stops there
WalkEnd ==
    /\ walk.remaining # <<>> /\ ~walk.fault
    /\ Top.t = "end"
    /\ walk' = IF Top.n <= Len(walk.state)
               THEN [walk EXCEPT !.remaining = Popped,
                                 !.cbs = Append(@, walk.state),
                                 !.state = SubSeq(@, 1, Top.n)]
               ELSE [walk EXCEPT !.cbs = Append(@, walk.state), !.fault = TRUE]
    /\ UNCHANGED <<gen, out, st, world, prog, last>>

\* Walk(root, cb) is entered: remaining holds end(0) and the root
WalkInit ==
    /\ \E p \in WalkProgs :
          walk = [root |-> Root(p), remaining |-> <<End(0), Root(p)>>,
                  state |-> <<>>, cbs |-> <<>>, fault |-> FALSE]
    /\ gen = Nil /\ out = <<>> /\ st = "done"
    /\ world = [chans |-> <<>>, fcalls |-> 0, calls |-> 0]
    /\ prog = [name |-> "walk"]
    /\ last = NoCall

WalkNext == WalkRule \/ WalkAlt \/ WalkElem \/ WalkEnd

WalkSpec == WalkInit /\ [][WalkNext]_vars

-----------------------------------------------------------------------------
(* Claims *)

\* C4: Cons is associative.  Draining Cons(Cons(A,B),C) and draining
\* Cons(A,Cons(B,C)) both end with exactly A's values, then B's, then C's,
\* for all finite A, B, C, the empty (nil) ones included.
C4_ConsAssociative ==
    (prog.name = "cons" /\ st # "running")
        => /\ st = "done"
           /\ out = Block(1, prog.la) \o Block(2, prog.lb) \o Block(3, prog.lc)

C4_Witness ==
    /\ prog.name = "cons" /\ prog.left /\ st = "done"
    /\ prog.la > 0 /\ prog.lb > 0 /\ prog.lc > 0
    /\ Len(out) = prog.la + prog.lb + prog.lc

\* C5: Filter(pred, g) drains to exactly the subsequence of g's values
\* that satisfy pred, in order, each once; when the last value, or every
\* value, fails pred the drain simply ends with fewer or no values.
C5_FilterSubsequence ==
    (prog.name = "filter" /\ st # "running")
        => /\ st = "done"
           /\ out = SelectSeq(prog.xs, LAMBDA x : ApplyPred(prog.pred, x))

\* the values of the sub-sequence f(x), for the three functions of FlatMapProgs
SubValues(fn, x) ==
    CASE fn = "id" -> <<x>>
      [] fn = "repeat" -> <<x, x>>
      [] fn = "filter" -> IF even(x) THEN <<x>> ELSE <<>>

RECURSIVE Concat(_, _)
\* f(xs[1]) \o f(xs[2]) \o ...
Concat(fn, xs) ==
    IF Len(xs) = 0 THEN <<>> ELSE SubValues(fn, Head(xs)) \o Concat(fn, Tail(xs))

\* C6: FlatMap(f, g) drains to f(x1) \o f(x2) \o ... over g's values in
\* order, an empty f(x) contributing nothing.
C6_FlatMapConcat ==
    (prog.name = "flatMap" /\ st # "running")
        => /\ st = "done"
           /\ out = Concat(prog.fn, prog.xs)

\* the values a Limit program's source produces: its i-th value, and how
\* many values Limit(n, source) is to emit
SourceValue(p, i) ==
    CASE p.src = "list" -> p.xs[i]
      [] p.src = "func" -> p.xs[1]
      [] p.src = "repeat" -> p.xs[((i - 1) % Len(p.xs)) + 1]

Min(a, b) == IF a < b THEN a ELSE b

LimitLength(p) ==
    CASE p.src = "list" -> Min(p.n, Len(p.xs))
      [] p.src = "func" -> p.n
      [] p.src = "repeat" -> IF Len(p.xs) = 0 THEN 0 ELSE p.n

\* C7: Limit(n, g) emits exactly the first min(n, |g|) values of g and then
\* a nil continuation: never more than n, no padding of a shorter source,
\* exactly n Next calls for an infinite g (a callable, a repeat); and the
\* remaining budget goes down by one on every Next.
C7_LimitExact ==
    prog.name = "limit"
        => /\ st # "panic"
           /\ Len(out) <= Min(prog.n, LimitLength(prog))
           /\ \A i \in 1..Len(out) : out[i] = SourceValue(prog, i)
           /\ (st = "done") = (Len(out) = LimitLength(prog))
           /\ st = "running"
                 => gen.k = "limit" /\ gen.remaining = prog.n - Len(out)

C7_Witness ==
    /\ prog.name = "limit" /\ prog.src = "repeat" /\ Len(prog.xs) = 2
    /\ prog.n = 3 /\ st = "done" /\ Len(out) = 3

\* C8: Repeat(g), g finite and non-nil with values v0..v(k-1), never
\* returns a nil continuation, and its i-th value is v(i mod k): nothing is
\* skipped or duplicated at the wrap-around.
C8_RepeatCycles ==
    prog.name = "repeat"
        => /\ st = "running"
           /\ gen.k = "repeat"
           /\ \A i \in 1..Len(out) : out[i] = prog.xs[((i - 1) % Len(prog.xs)) + 1]

C8_Witness ==
    /\ prog.name = "repeat" /\ Len(prog.xs) = 2 /\ prog.xs[1] # prog.xs[2]
    /\ Len(out) = 5

\* the values of out that come from block i, in out's order
Proj(s, i) ==
    SelectSeq(s, LAMBDA x : (i - 1) * (MaxLen + 1) < x /\ x <= i * (MaxLen + 1))

IsPrefix(p, s) == Len(p) <= Len(s) /\ p = SubSeq(s, 1, Len(p))

\* the values operand i of a Mix program is to produce
MixValues(p, i) ==
    CASE i = 1 -> Block(1, p.l1)
      [] i = 2 -> Block(2, p.l2)
      [] i = 3 -> IF p.third = "lit" THEN Block(3, 1) ELSE <<>>

MixTotal(p) == Len(MixValues(p, 1)) + Len(MixValues(p, 2)) + Len(MixValues(p, 3))

\* C9: whatever the random choices, draining Mix over finite sources emits
\* each source's values in that source's order and nothing else, and ends
\* (nil continuation) exactly when the last live branch is exhausted, with
\* the union of the sources' values emitted and no extra StopIteration.
C9_MixInterleaves ==
    prog.name = "mix"
        => /\ st # "panic"
           /\ \A i \in 1..3 : IsPrefix(Proj(out, i), MixValues(prog, i))
           /\ Len(out) = Len(Proj(out, 1)) + Len(Proj(out, 2)) + Len(Proj(out, 3))
           /\ (st = "done") = (Len(out) = MixTotal(prog))

C9_Witness ==
    /\ prog.name = "mix" /\ prog.l1 = 2 /\ prog.l2 = 2 /\ prog.third = "lit"
    /\ st = "done"
    /\ out[1] = Block(2, 2)[1] /\ out[2] = Block(3, 1)[1] /\ out[5] = Block(2, 2)[2]

\* branch i of a Choices program is eligible
Eligible(p, i) ==
    CASE i = 1 -> p.p1 > 0 /\ p.l1 > 0
      [] i = 2 -> p.p2 > 0 /\ p.l2 > 0
      [] i = 3 -> p.third = "one"

\* C10: Choices.Next only ever advances an eligible branch (weight > 0 and
\* a non-nil generator): no value of a branch with weight 0 or a nil
\* generator is ever emitted, whatever the draw; and with no eligible
\* branch Next returns (StopIteration, nil).
C10_ChoicesEligibleOnly ==
    prog.name = "choices"
        => /\ st # "panic"
           /\ \A i \in 1..3 : ~Eligible(prog, i) => Proj(out, i) = <<>>
           /\ (\E i \in 1..3 : Eligible(prog, i))
                 => Len(out) = Len(Proj(out, 1)) + Len(Proj(out, 2)) + Len(Proj(out, 3))
           /\ (last.called /\ \A i \in 1..3 : ~Eligible(prog, i))
                 => out = <<StopIteration>> /\ gen = Nil /\ st = "done"

C10_Witness ==
    /\ prog.name = "choices" /\ prog.p1 = 0 /\ prog.l1 = 2
    /\ prog.p2 > 0 /\ prog.l2 = 2 /\ prog.third = "nilgen"
    /\ st = "done" /\ Len(out) = 2

RECURSIVE Paced(_)
\* a Next call on g reaches a timeLimit or a stagger
Paced(g) ==
    CASE g.k \in {"timeLimit", "stagger"} -> TRUE
      [] g.k = "cons" -> Paced(g.head)
      [] g.k \in {"limit", "mapper"} -> Paced(g.inner)
      [] g.k = "repeat" -> Paced(IF g.iter = Nil THEN g.orig ELSE g.iter)
      [] OTHER -> FALSE

RECURSIVE Rest(_, _, _)
\* the value sequences a drain of g can produce from world w1 in at most n
\* calls, with a context that is never done and no timer firing but those
\* a stagger waits for (a panic ends the sequence with NilValue)
Rest(g, w1, n) ==
    IF g = Nil \/ n = 0 THEN {<<>>}
    ELSE UNION {IF o.panic THEN {<<NilValue>>}
                ELSE {<<o.x>> \o r : r \in Rest(o.ng, o.w, n - 1)}
                : o \in GenNext(g, [done |-> FALSE], w1)}

\* C1: cancellation is at-most-once for every composition around a
\* timeLimit or a stagger: a Next call made while the context is done
\* returns Pending and consumes nothing, so draining the continuation it
\* returns yields what draining the generator it was called on yields (in
\* particular the budget of a limit is not spent by a Pending).
C1_PendingConsumesNothing ==
    (prog.name = "paced" /\ last.called /\ last.done /\ Paced(last.pre))
        => /\ last.x = Pending
           /\ Rest(last.ng, world, MaxCalls) = Rest(last.pre, last.w, MaxCalls)

\* C2: timeLimit.Next called with a done context returns (Pending, the
\* unchanged timeLimit), also when the deadline has elapsed as well; the
\* deadline outcome (StopIteration, nil) needs a context that is not done.
C2_CancelFirst ==
    (last.called /\ last.pre.k = "timeLimit" /\ last.done)
        => last.x = Pending /\ last.ng = last.pre

\* the timeLimit a Next call on g is made on: g itself, or the iterator a
\* repeat around it delegates to
TimeLimitCalled(g) ==
    IF g.k = "repeat" THEN (IF g.iter = Nil THEN g.orig ELSE g.iter) ELSE g

\* the deadline of timer channel ch has passed: the time was delivered
Elapsed(w1, ch) == w1.chans[ch] \in {"ready", "taken"}

\* C3: every Next call on a timeLimit value made after its duration has
\* elapsed, with a context that is not done, returns (StopIteration, nil)
\* without delegating to the inner generator: the first such call, a
\* repeated one, and one on the value replayed by repeat.
C3_DeadlineIsTerminal ==
    (/\ prog.name = "paced" /\ prog.wrap \in {"timeLimit", "repeat"}
     /\ last.called /\ ~last.done
     /\ Elapsed(last.w, TimeLimitCalled(last.pre).ch))
        => /\ last.x = StopIteration
           /\ IF last.pre.k = "repeat" THEN last.ng.iter = Nil ELSE last.ng = Nil

\* the values and the weight of branch i of a Choices program
ChoicesValues(p, i) ==
    CASE i = 1 -> Block(1, p.l1)
      [] i = 2 -> Block(2, p.l2)
      [] i = 3 -> IF p.third = "nilgen" THEN <<>> ELSE Block(3, 1)

ChoicesWeight(p, i) ==
    CASE i = 1 -> p.p1
      [] i = 2 -> p.p2
      [] i = 3 -> IF p.third = "zero" THEN 0 ELSE 1

\* the eligible branches that still have a value to emit, in source order
LiveBranches ==
    SelectSeq(<<1, 2, 3>>,
              LAMBDA i : /\ Eligible(prog, i)
                         /\ Len(Proj(out, i)) < Len(ChoicesValues(prog, i)))

\* C11: in a drain of Choices over finite branches, the continuation
\* holds exactly the eligible branches that are not exhausted, each at its
\* relative position and with its weight and with its remaining values to
\* emit: an exhausted branch is gone for good.  The drain emits each
\* branch's values in the branch's order, only those, and ends with a nil
\* continuation exactly when the last branch is exhausted.
C11_ChoicesDrains ==
    (prog.name = "choices" /\ \E i \in 1..3 : Eligible(prog, i))
        => /\ st # "panic"
           /\ Len(out) = Len(Proj(out, 1)) + Len(Proj(out, 2)) + Len(Proj(out, 3))
           /\ \A i \in 1..3 : IsPrefix(Proj(out, i), ChoicesValues(prog, i))
           /\ (st = "done") = (LiveBranches = <<>>)
           /\ (st = "done") => gen = Nil
           /\ (st = "running" /\ last.called)
                 => /\ gen.k = "choices"
                    /\ Len(gen.bs) = Len(LiveBranches)
                    /\ \A j \in 1..Len(gen.bs) :
                          LET i == LiveBranches[j]
                              vs == ChoicesValues(prog, i)
                          IN  /\ gen.bs[j].prob = ChoicesWeight(prog, i)
                              /\ Rest(gen.bs[j].gen, world, MaxCalls)
                                   = {SubSeq(vs, Len(Proj(out, i)) + 1, Len(vs))}

C11_Witness ==
    /\ prog.name = "choices" /\ prog.l1 = 2 /\ prog.l2 = 2
    /\ prog.p1 = 2 /\ prog.p2 = 1 /\ prog.third = "one"
    /\ st = "done" /\ Len(out) = 5 /\ out[1] = Block(3, 1)[1]

\* C12: a Next call that returns Pending because the context is done
\* returns a non-nil continuation with it, for every composition around a
\* timeLimit or a stagger (limit, cons, map, repeat wrapped around them).
C12_PendingKeepsContinuation ==
    (prog.name = "paced" /\ last.called /\ last.done /\ last.x = Pending)
        => last.ng # Nil

\* the values the inner generator of a stagger has been advanced over
Advanced == SelectSeq(out, LAMBDA x : x # Pending)

\* the factory invocations of a Next call on a stagger holding channel ch
\* that ended with continuation ng
FactoryCalls(ch, ng) ==
    (IF ch = NilChan THEN 1 ELSE 0) + (IF ng # Nil /\ last.x # Pending THEN 1 ELSE 0)

\* C13: a stagger.Next that ends in Pending leaves the inner generator
\* where it was and returns a stagger holding the timer channel the call
\* waited on, so a retry does not invoke the factory again; a Next that
\* ends on the timer advances the inner generator once and, when the inner
\* continuation is non-nil, installs a channel obtained from the factory
\* in that call.  The factory is invoked at most once per advance plus
\* once for the first step.
C13_StaggerPacing ==
    (prog.name = "paced" /\ prog.wrap \in {"stagger", "staggerFn"})
        => /\ st # "panic"
           /\ IsPrefix(Advanced, prog.xs)
           /\ world.fcalls <= Len(Advanced) + 1
           /\ last.called
                 => /\ world.fcalls
                         = last.w.fcalls + FactoryCalls(last.pre.ch, last.ng)
                    /\ last.x = Pending
                          => /\ last.ng.k = "stagger"
                             /\ last.ng.inner = last.pre.inner
                             /\ last.ng.f = last.pre.f
                             /\ last.ng.ch # NilChan
                             /\ last.pre.ch # NilChan => last.ng.ch = last.pre.ch
                    /\ (last.x # Pending /\ last.ng # Nil)
                          => /\ last.ng.k = "stagger"
                             /\ last.ng.ch # NilChan
                             /\ last.pre.f = "after"
                                   => last.ng.ch = Len(world.chans)
                                      /\ last.ng.ch \notin DOMAIN last.w.chans

C13_Witness ==
    /\ prog.name = "paced" /\ prog.wrap \in {"stagger", "staggerFn"}
    /\ Len(prog.xs) = 2 /\ st = "done"
    /\ Len(out) = 4 /\ out[1] = Pending /\ out[2] = Pending
    /\ world.fcalls = 2

\* C14 as stated: Stagger with a non-positive duration is none, for every
\* inner generator.
C14_StaggerNonPositiveIsNone ==
    (prog.name = "degenerate" /\ prog.ctor = "stagger0")
        => Build(prog) = Nil

\* C14: Stagger with a non-positive duration is the inner generator
\* itself, unpaced: none when the inner generator is none, and otherwise a
\* generator that drains to the inner values without a timer, whether the
\* context is done or not.
C14_StaggerNonPositiveIsInner ==
    (prog.name = "degenerate" /\ prog.ctor = "stagger0")
        => /\ Build(prog) = FromList(prog.xs)
           /\ (Build(prog) = Nil) = (prog.xs = <<>>)
           /\ world.fcalls = 0 /\ world.chans = <<>>
           /\ st # "panic"
           /\ IsPrefix(out, prog.xs)
           /\ (st = "done") = (out = prog.xs)

C14_Witness ==
    /\ prog.name = "degenerate" /\ prog.ctor = "stagger0" /\ prog.d = 0
    /\ Len(prog.xs) = 2 /\ st = "done" /\ out = prog.xs /\ last.done

\* C15: a construction with a degenerate argument returns none: Limit
\* with n <= 0 or a nil source, TimeLimit with d <= 0 or a nil source, Seq
\* and Mix with no operand or only nil operands, Repeat(nil), Map(f, nil),
\* FlatMap(f, nil), StaggerFn(f, nil) and Cons(nil, nil); Cons(nil, t) is
\* t and Cons(h, nil) is h.  None emits nothing: the drive is over at once.
C15_DegenerateIsNone ==
    (prog.name = "degenerate" /\ prog.ctor \in DegenerateCtors)
        => IF prog.ctor \in {"consNilT", "consHNil"}
           THEN /\ Build(prog) = FromList(prog.xs)
                /\ st # "panic"
                /\ IsPrefix(out, prog.xs)
                /\ (st = "done") = (out = prog.xs)
           ELSE /\ Build(prog) = Nil
                /\ gen = Nil /\ st = "done" /\ out = <<>> /\ ~last.called

C15_Witness ==
    /\ prog.name = "degenerate" /\ prog.ctor = "limit0" /\ prog.d = 0
    /\ Len(prog.xs) = 2 /\ gen = Nil /\ st = "done"

\* the values operand i of a Seq program contributes
OperandValues(kind, i) ==
    CASE kind = "lit" -> Block(i, 1)
      [] kind = "seq" -> Block(i, MaxLen)
      [] OTHER -> <<>>

RECURSIVE SeqValues(_, _)
\* the concatenation of the contributions of operands i, i+1, ...
SeqValues(ops, i) ==
    IF i > Len(ops) THEN <<>>
    ELSE OperandValues(ops[i], i) \o SeqValues(ops, i + 1)

\* C16: Seq(x1..xn) drains to the concatenation, in operand order, of what
\* its operands contribute: a nil or none operand nothing, a literal
\* itself once, a nested Seq its elements in place; the drain ends with a
\* nil continuation on the last of them.
C16_SeqConcatenates ==
    prog.name = "seq"
        => /\ st # "panic"
           /\ IsPrefix(out, SeqValues(prog.ops, 1))
           /\ (st = "done") = (out = SeqValues(prog.ops, 1))

C16_Witness ==
    /\ prog.name = "seq" /\ prog.ops = <<"seq", "nil", "lit">>
    /\ st = "done" /\ Len(out) = MaxLen + 1

\* C17: Map(f, g) emits f(x) for each value x of g, in order, one output
\* per input and none after g's last; a sentinel produced by g is given to
\* f like any other value.
C17_MapApplies ==
    prog.name = "map"
        => /\ st # "panic"
           /\ Len(out) <= Len(prog.xs)
           /\ \A i \in 1..Len(out) : out[i] = ApplyMap(prog.f, prog.xs[i])
           /\ (st = "done") = (Len(out) = Len(prog.xs))

C17_Witness ==
    /\ prog.name = "map" /\ prog.f = "double"
    /\ Len(prog.xs) = 2 /\ prog.xs[1] = StopIteration /\ prog.xs[2] = 1
    /\ st = "done" /\ out = <<Pending, 2>>

\* the callable's result is a value, not a Generator
IsLiteralResult(p) == p.res \in {"val", "nil", "pending", "stop"}

\* the result of the callable as Next is to return it
ResultValue(p) ==
    CASE p.res = "val" -> p.v
      [] p.res = "nil" -> NilValue
      [] p.res = "pending" -> Pending
      [] p.res = "stop" -> StopIteration

Emitted(S) == {SelectSeq(r, LAMBDA x : x # StopIteration) : r \in S}

Product(X, Y) ==
    IF Len(Y) = 0 THEN <<>>
    ELSE [m \in 1..(Len(X) * Len(Y)) |->
             X[((m - 1) \div Len(Y)) + 1] \o Y[((m - 1) % Len(Y)) + 1]]

RECURSIVE DerivRule(_, _)
RECURSIVE DerivAlts(_, _, _)
RECURSIVE DerivElems(_, _, _)

\* the derivations of rule r, each as the list of its values, in
\* lexicographic order of the alternatives chosen; a rule without
\* alternatives has none, or counts as one empty derivation when skip
DerivRule(r, skip) ==
    IF Len(r.alts) = 0 THEN (IF skip THEN <<<<>>>> ELSE <<>>)
    ELSE DerivAlts(r.alts, 1, skip)

DerivAlts(as, k, skip) ==
    IF k > Len(as) THEN <<>>
    ELSE DerivElems(as[k].elems, 1, skip) \o DerivAlts(as, k + 1, skip)

DerivElems(es, i, skip) ==
    IF i > Len(es) THEN <<<<>>>>
    ELSE Product(IF es[i].t = "ruleElem" THEN DerivRule(es[i].r, skip)
                 ELSE <<<<es[i].x>>>>,
                 DerivElems(es, i + 1, skip))

\* C20 as stated: Walk calls the callback once per derivation of the root,
\* with the derivation's values, in lexicographic order of the alternative
\* indices, the leftmost choice varying slowest; an Empty alternative
\* contributes no value, and the state is cut back to the length it had
\* where a choice was made.
C20_WalkEnumerates ==
    walk.root # Nil
        => /\ ~walk.fault
           /\ IsPrefix(walk.cbs, DerivRule(walk.root, FALSE))
           /\ walk.remaining = <<>> => walk.cbs = DerivRule(walk.root, FALSE)

\* C20: the same, where a rule that has no alternative at all is passed
\* over like a rule whose only alternative is Empty.  At every moment the
\* markers on the stack hold lengths the state has not fallen below.
C20_WalkEnumeratesSkippingEmptyRules ==
    walk.root # Nil
        => /\ ~walk.fault
           /\ IsPrefix(walk.cbs, DerivRule(walk.root, TRUE))
           /\ walk.remaining = <<>>
                 => walk.cbs = DerivRule(walk.root, TRUE) /\ walk.state = <<>>
           /\ \A i \in 1..Len(walk.remaining) :
                 walk.remaining[i].t = "end"
                     => walk.remaining[i].n <= Len(walk.state)

C20_Witness ==
    /\ walk.root = Root([shape |-> "flat",
                         slots |-> <<<<"empty", "val">>, <<"val", "val">>,
                                     <<"val", "empty">>>>])
    /\ walk.remaining = <<>>
    /\ Len(walk.cbs) = 8
    /\ walk.cbs[1] = <<AltValue(2, 1), AltValue(3, 1)>>
    /\ walk.cbs[2] = <<AltValue(2, 1)>>
    /\ walk.cbs[8] = <<AltValue(1, 2), AltValue(2, 2)>>

RECURSIVE CumWeight(_, _)
\* the sum of the weights of the eligible branches among the first i
CumWeight(bs, i) ==
    IF i = 0 THEN 0
    ELSE CumWeight(bs, i - 1)
         + (IF bs[i].prob > 0 /\ bs[i].gen # Nil THEN bs[i].prob ELSE 0)

\* the roulette wheel: the first eligible branch whose cumulative
\* eligible weight strictly exceeds the draw r
Roulette(bs, r) ==
    LET hit == {i \in 1..Len(bs) :
                  bs[i].prob > 0 /\ bs[i].gen # Nil /\ CumWeight(bs, i) > r}
    IN  CHOOSE i \in hit : \A j \in hit : i <= j

\* the eligible branches of bs in order, branch sel replaced by its
\* continuation ng, or left out when ng is nil
CarriedOver(bs, sel, ng) ==
    LET idx == SelectSeq([i \in 1..Len(bs) |-> i],
                         LAMBDA i : /\ bs[i].prob > 0 /\ bs[i].gen # Nil
                                    /\ (i # sel \/ ng # Nil))
    IN  [j \in 1..Len(idx) |->
            IF idx[j] = sel THEN [gen |-> ng, prob |-> bs[sel].prob]
            ELSE bs[idx[j]]]

\* the results of a Next on Choices bs that advances branch sel
Advancing(bs, sel, ctx, w1) ==
    {[x |-> o.x,
      ng |-> LET c == CarriedOver(bs, sel, o.ng)
             IN  IF c = <<>> THEN Nil ELSE [k |-> "choices", bs |-> c]]
     : o \in GenNext(bs[sel].gen, ctx, w1)}

\* C21: Choices.Next is a roulette wheel.  With S the sum of the eligible
\* weights, for every integer draw r in [0, S) the scan selects the first
\* eligible branch whose cumulative eligible weight strictly exceeds r; a
\* Next call advances exactly one such branch and carries the other
\* eligible branches over unchanged, and every such branch can be the one.
C21_RouletteSelection ==
    /\ (st = "running" /\ gen.k = "choices"
        /\ \E i \in 1..Len(gen.bs) : Valid(gen.bs[i]))
          => LET S == CumWeight(gen.bs, Len(gen.bs))
                 ctx == [done |-> FALSE]
             IN  /\ \A r \in 0..(S - 1) : Selected(gen.bs, 1, r) = Roulette(gen.bs, r)
                 /\ {[x |-> o.x, ng |-> o.ng] : o \in ChoicesNext(gen, ctx, world)}
                      = UNION {Advancing(gen.bs, Roulette(gen.bs, r), ctx, world)
                               : r \in 0..(S - 1)}
    /\ (last.called /\ last.pre.k = "choices"
        /\ \E i \in 1..Len(last.pre.bs) : Valid(last.pre.bs[i]))
          => \E r \in 0..(CumWeight(last.pre.bs, Len(last.pre.bs)) - 1) :
                [x |-> last.x, ng |-> last.ng]
                    \in Advancing(last.pre.bs, Roulette(last.pre.bs, r),
                                  [done |-> last.done], last.w)

C21_Witness ==
    /\ prog.name = "choices" /\ prog.p1 = 2 /\ prog.p2 = 1 /\ prog.l1 = 2
    /\ prog.l2 = 2 /\ prog.third = "zero"
    /\ Len(out) = 1 /\ out[1] = Block(2, 1)[1]
    /\ last.called /\ Len(last.pre.bs) = 3 /\ Len(last.ng.bs) = 2
    /\ Roulette(last.pre.bs, 2) = 2

\* the positions of the branches of bs a Choices.Update is to keep: the
\* eligible ones whose own Update is not nil
Surviving(bs) ==
    SelectSeq([i \in 1..Len(bs) |-> i],
              LAMBDA i : /\ bs[i].prob > 0 /\ bs[i].gen # Nil
                         /\ GenUpdate(bs[i].gen) # Nil)

\* C22: Choices.Update only prunes.  Its result holds, in the original
\* order and with their weights, exactly the eligible branches whose own
\* Update is non-nil, each replaced by that Update; it is nil when there is
\* none; and each branch kept drains as it did before the Update.
C22_ChoicesUpdatePrunes ==
    (st = "running" /\ gen.k = "choices")
        => LET u == GenUpdate(gen)
               idx == Surviving(gen.bs)
           IN  /\ (u = Nil) = (idx = <<>>)
               /\ u # Nil
                    => /\ u.k = "choices"
                       /\ Len(u.bs) = Len(idx)
                       /\ \A j \in 1..Len(idx) :
                            /\ u.bs[j].prob = gen.bs[idx[j]].prob
                            /\ u.bs[j].gen = GenUpdate(gen.bs[idx[j]].gen)
                            /\ Rest(u.bs[j].gen, world, MaxCalls)
                                 = Rest(gen.bs[idx[j]].gen, world, MaxCalls)

C22_Witness ==
    /\ prog.name = "prune" /\ prog.inner = "dead" /\ prog.l1 = 2
    /\ prog.p1 = 1 /\ prog.p2 = 2
    /\ ~last.called /\ st = "running"
    /\ gen.k = "choices" /\ Len(gen.bs) = 1 /\ gen.bs[1].prob = 1

-----------------------------------------------------------------------------
(* Slices.  seq, mix and Choices are Go slice types: a value of one of
   them is a header (array, low, high) over a backing array that other
   headers may share, and a write through one header is seen through all.
   Here the arrays live in a heap, heap[a] being array a, and a slice
   value is Slice(k, a, lo, hi), the Go expression a[lo:hi] of type k.
   The struct types (some, cons, mapper, flatMapper, limit, repeat) have
   value receivers: a method works on its own copy of the struct, so they
   stay plain records, holding slice values where the Go structs do. *)

Slice(k, a, lo, hi) == [k |-> k, arr |-> a, lo |-> lo, hi |-> hi]

\* the elements seen through the header g
Elems(h, g) == SubSeq(h[g.arr], g.lo + 1, g.hi)

\* make + append: a new backing array holding elems
Alloc(h, elems) == Append(h, elems)

HeapRet(x, ng, h) == [x |-> x, ng |-> ng, h |-> h, panic |-> FALSE]

HeapNilDeref(h) == [x |-> NilValue, ng |-> Nil, h |-> h, panic |-> TRUE]

RECURSIVE HeapNext(_, _)

consNextOnHeap(g, h) ==
    IF g.head = Nil
    THEN IF g.tail = Nil
         THEN {HeapRet(StopIteration, Nil, h)}
         ELSE HeapNext(g.tail, h)
    ELSE {IF o.panic THEN o
          ELSE HeapRet(o.x,
                       IF o.ng = Nil
                       THEN g.tail
                       ELSE [k |-> "cons", head |-> o.ng, tail |-> g.tail],
                       o.h)
          : o \in HeapNext(g.head, h)}

\* tail := gs[i+1:] is a header over the array of gs
seqNextOnHeap(g, h) ==
    LET gs == Elems(h, g)
        i == FirstNonNil(gs, 1)
        tail == Slice("seq", g.arr, g.lo + i, g.hi)
    IN  IF i = 0 THEN {HeapRet(StopIteration, Nil, h)}
        ELSE IF tail.hi - tail.lo = 0 THEN HeapNext(gs[i], h)
        ELSE HeapNext(Cons(gs[i], tail), h)

\* a mix.Next that filters in place (alts := gs[:0]) and so writes the
\* continuation into the array of its receiver
mixNextInPlace(g, h) ==
    LET alts == NonNil(Elems(h, g))
        h1 == [h EXCEPT ![g.arr] =
                  [j \in 1..Len(@) |->
                      IF j > g.lo /\ j <= g.lo + Len(alts)
                      THEN alts[j - g.lo] ELSE @[j]]]
    IN  IF Len(alts) = 0 THEN {HeapRet(StopIteration, Nil, h)}
        ELSE UNION {{IF o.panic THEN o
                     ELSE IF Len(alts) = 1 /\ o.ng = Nil
                          THEN HeapRet(o.x, Nil, o.h)
                          ELSE HeapRet(o.x,
                                       Slice("mix", g.arr, g.lo, g.lo + Len(alts)),
                                       [o.h EXCEPT ![g.arr][g.lo + i] = o.ng])
                     : o \in HeapNext(alts[i], h1)}
                    : i \in 1..Len(alts)}

\* alts is made anew and filled before alts[i].Next runs; alts[i] = ng
\* writes into it afterwards
mixNextOnHeap(g, h) ==
    LET alts == NonNil(Elems(h, g))
        a == Len(h) + 1
        h1 == Alloc(h, alts)
    IN  IF Len(alts) = 0 THEN {HeapRet(StopIteration, Nil, h)}
        ELSE UNION {{IF o.panic THEN o
                     ELSE IF Len(alts) = 1 /\ o.ng = Nil
                          THEN HeapRet(o.x, Nil, o.h)
                          ELSE HeapRet(o.x, Slice("mix", a, 0, Len(alts)),
                                       [o.h EXCEPT ![a][i] = o.ng])
                     : o \in HeapNext(alts[i], h1)}
                    : i \in 1..Len(alts)}

mapperNextOnHeap(g, h) ==
    IF g.inner = Nil THEN {HeapRet(StopIteration, Nil, h)}
    ELSE {IF o.panic THEN o
          ELSE HeapRet(ApplyMap(g.f, o.x), Map(g.f, o.ng), o.h)
          : o \in HeapNext(g.inner, h)}

flatMapperNextOnHeap(g, h) ==
    IF g.inner = Nil THEN {HeapRet(StopIteration, Nil, h)}
    ELSE UNION {IF o.panic THEN {o}
                ELSE HeapNext(Cons(ApplyFlat(g.f, o.x),
                                   IF o.ng # Nil THEN FlatMap(g.f, o.ng) ELSE Nil),
                              o.h)
                : o \in HeapNext(g.inner, h)}

limitNextOnHeap(g, h) ==
    IF g.remaining <= 0 \/ g.inner = Nil THEN {HeapRet(StopIteration, Nil, h)}
    ELSE {IF o.panic THEN o
          ELSE HeapRet(o.x, Limit(g.remaining - 1, o.ng), o.h)
          : o \in HeapNext(g.inner, h)}

\* g.iter = g.orig assigns to the copy the value receiver works on
repeatNextOnHeap(g, h) ==
    IF g.orig = Nil THEN {HeapRet(StopIteration, Nil, h)}
    ELSE LET iter == IF g.iter = Nil THEN g.orig ELSE g.iter
         IN  {IF o.panic THEN o
              ELSE HeapRet(o.x, repeat(g.orig, o.ng), o.h)
              : o \in HeapNext(iter, h)}

\* ngs is made anew; the branches before the selected one are appended
\* before its Next runs, the others after
ChoicesNextOnHeap(g, h) ==
    LET bs == Elems(h, g)
        s == SumProb(bs, 1)
        n == Cardinality({i \in 1..Len(bs) : Valid(bs[i])})
        a == Len(h) + 1
        draw(t) ==
            LET sel == Selected(bs, 1, t)
                before == Carry(SubSeq(bs, 1, sel - 1), 1, 0, Nil)
            IN  IF sel = 0
                THEN {HeapRet(NilValue, Slice("choices", a, 0, n),
                              Alloc(h, Carry(bs, 1, 0, Nil)))}
                ELSE {IF o.panic THEN o
                      ELSE LET ngs == Carry(bs, 1, sel, o.ng)
                           IN  HeapRet(o.x,
                                       IF Len(ngs) = 0 THEN Nil
                                       ELSE Slice("choices", a, 0, Len(ngs)),
                                       [o.h EXCEPT ![a] = ngs])
                      : o \in HeapNext(bs[sel].gen, Alloc(h, before))}
    IN  IF n = 0 THEN {HeapRet(StopIteration, Nil, h)}
        ELSE UNION {draw(t) : t \in IF s > 0 THEN 0..(s - 1) ELSE {0}}

\* g.Next(ctx) on heap h: the outcomes, each with the heap it leaves
HeapNext(g, h) ==
    CASE g.k = "nil" -> {HeapNilDeref(h)}
      [] g.k = "some" -> {HeapRet(g.val, Nil, h)}
      [] g.k = "cons" -> consNextOnHeap(g, h)
      [] g.k = "seq" -> seqNextOnHeap(g, h)
      [] g.k = "mix" -> mixNextOnHeap(g, h)
      [] g.k = "mapper" -> mapperNextOnHeap(g, h)
      [] g.k = "flatMapper" -> flatMapperNextOnHeap(g, h)
      [] g.k = "limit" -> limitNextOnHeap(g, h)
      [] g.k = "repeat" -> repeatNextOnHeap(g, h)
      [] g.k = "choices" -> ChoicesNextOnHeap(g, h)

(* Programs over slices: a Seq, a Mix of two Seqs or a Choices of two
   Seqs, over literals, alone or under one of the struct combinators. *)

HeapProgs ==
    [name : {"heap"}, shape : {"seq", "mix", "choices"},
     wrap : {"none", "cons", "map", "flatMap", "limit", "repeat"},
     l1 : 0..MaxLen, l2 : 0..MaxLen]

\* a generator value together with the heap its arrays are in
OnHeap(g, h) == [g |-> g, h |-> h]

\* Seq(x1, ..., xn) over literals: WrapAllNonNil makes the array
SeqOnHeap(xs, h) ==
    IF Len(xs) = 0 THEN OnHeap(Nil, h)
    ELSE OnHeap(Slice("seq", Len(h) + 1, 0, Len(xs)),
                Alloc(h, [i \in 1..Len(xs) |-> Some(Lit(xs[i]))]))

\* Mix(g1, g2): WrapAllNonNil makes the array of the non-nil operands
MixOnHeap(g1, g2, h) ==
    LET gs == NonNil(<<g1, g2>>)
    IN  IF Len(gs) = 0 THEN OnHeap(Nil, h)
        ELSE OnHeap(Slice("mix", Len(h) + 1, 0, Len(gs)), Alloc(h, gs))

\* the literal Choices{{g1, 1}, {g2, 2}}
ChoicesOnHeap(g1, g2, h) ==
    OnHeap(Slice("choices", Len(h) + 1, 0, 2),
           Alloc(h, <<Branch(g1, 1), Branch(g2, 2)>>))

BuildOnHeap(p) ==
    LET s1 == SeqOnHeap(Block(1, p.l1), <<>>)
        s2 == SeqOnHeap(Block(2, p.l2), s1.h)
        core == CASE p.shape = "seq" -> s1
                  [] p.shape = "mix" -> MixOnHeap(s1.g, s2.g, s2.h)
                  [] p.shape = "choices" -> ChoicesOnHeap(s1.g, s2.g, s2.h)
        g == CASE p.wrap = "none" -> core.g
               [] p.wrap = "cons" -> Cons(Some(Lit(0)), core.g)
               [] p.wrap = "map" -> Map("double", core.g)
               [] p.wrap = "flatMap" -> FlatMap([fn |-> "repeat"], core.g)
               [] p.wrap = "limit" -> Limit(MaxN, core.g)
               [] p.wrap = "repeat" -> Repeat(core.g)
    IN  OnHeap(g, core.h)

HeapInit ==
    /\ prog \in HeapProgs
    /\ gen = BuildOnHeap(prog).g
    /\ out = <<>>
    /\ st = IF gen = Nil THEN "done" ELSE "running"
    /\ world = [heap |-> BuildOnHeap(prog).h]
    /\ last = [called |-> FALSE, pre |-> Nil, w |-> world, x |-> NilValue,
               ng |-> Nil]
    /\ walk = NoWalk

\* x, g = g.Next(ctx)
HeapCallNext ==
    /\ st = "running"
    /\ Len(out) < MaxCalls
    /\ \E o \in HeapNext(gen, world.heap) :
          /\ gen' = o.ng
          /\ out' = IF o.panic THEN out ELSE Append(out, o.x)
          /\ st' = IF o.panic THEN "panic"
                   ELSE IF o.ng = Nil THEN "done" ELSE "running"
          /\ world' = [heap |-> o.h]
          /\ last' = [called |-> TRUE, pre |-> gen, w |-> world, x |-> o.x,
                      ng |-> o.ng]
    /\ UNCHANGED <<prog, walk>>

HeapSpec == HeapInit /\ [][HeapCallNext]_vars

RECURSIVE HeapRest(_, _, _)
\* the value sequences a drain of g can produce from heap h in at most n
\* calls (a panic ends the sequence with NilValue)
HeapRest(g, h, n) ==
    IF g = Nil \/ n = 0 THEN {<<>>}
    ELSE UNION {IF o.panic THEN {<<NilValue>>}
                ELSE {<<o.x>> \o r : r \in HeapRest(o.ng, o.h, n - 1)}
                : o \in HeapNext(g, h)}

\* C23: Next never modifies the value it is called on.  A Next call leaves
\* every backing array that existed before the call as it was, so the
\* receiver's branches are unchanged and the continuation shares none of
\* them for writing; the receiver, and the generator the program was built
\* as, drain after the call as they drained before it; and a repeat over a
\* Seq yields in its second round what it yielded in its first.
C23_NextLeavesReceiver ==
    LET g0 == BuildOnHeap(prog)
    IN  /\ last.called
            => /\ \A a \in 1..Len(last.w.heap) : world.heap[a] = last.w.heap[a]
               /\ HeapRest(last.pre, world.heap, MaxCalls)
                    = HeapRest(last.pre, last.w.heap, MaxCalls)
        /\ HeapRest(g0.g, world.heap, MaxCalls) = HeapRest(g0.g, g0.h, MaxCalls)
        /\ (prog.wrap = "repeat" /\ prog.shape = "seq")
            => \A i \in 1..Len(out) :
                  i > prog.l1 => out[i] = out[i - prog.l1]

C23_Witness ==
    /\ prog.name = "heap" /\ prog.shape = "mix" /\ prog.wrap = "repeat"
    /\ prog.l1 = 2 /\ prog.l2 = 2
    /\ Len(out) = MaxCalls
    /\ Len(world.heap) > Len(BuildOnHeap(prog).h)
    /\ last.called /\ last.pre.k = "repeat" /\ last.pre.iter.k = "mix"

-----------------------------------------------------------------------------
(* One Next call, step by step.  flatMapper.Next ends in the call
   Cons(g.f(x), ng).Next(ctx), whose result it returns as it is.  When
   g.f(x) is nil and ng is not, that call is flatMapper.Next again, on
   FlatMap(g.f, ng): the caller's call is still in progress.  Here st is
   "calling" while a Next call of the driver is in progress, and gen is
   then the flatMapper whose Next is running.  Go makes no tail calls: each
   of these calls adds a frame to the goroutine's stack, and world.frames
   is the number of flatMapper.Next frames of the call, modulo 2. *)

\* Filter(pred, source), the source a Seq of literals, a Repeat of one, or
\* a callable that returns a literal
StepProgs ==
    [name : {"step"}, pred : {"even", "odd", "all", "never"},
     src : {"seq", "repeat"}, xs : Lists]
    \cup [name : {"step"}, pred : {"even", "odd", "all", "never"},
          src : {"func"}, xs : [1..1 -> 1..MaxVal]]

BuildStep(p) ==
    Filter(p.pred,
           CASE p.src = "seq" -> FromList(p.xs)
             [] p.src = "repeat" -> Repeat(FromList(p.xs))
             [] p.src = "func" -> Some(Func(Lit(p.xs[1]))))

\* the count of invocations, kept up to MaxCalls
Counted(w1) == [w1 EXCEPT !.calls = IF @ > MaxCalls THEN MaxCalls ELSE @]

\* flatMapper.Next is entered once more
Pushed(w1) == [w1 EXCEPT !.frames = (@ + 1) % 2]

\* the call returned, or panicked: its frames are gone
Unwound(w1) == [w1 EXCEPT !.frames = 0]

StepInit ==
    /\ prog \in StepProgs
    /\ gen = BuildStep(prog)
    /\ out = <<>>
    /\ st = IF gen = Nil THEN "done" ELSE "running"
    /\ world = [chans |-> <<>>, fcalls |-> 0, calls |-> 0, frames |-> 0]
    /\ last = NoCall
    /\ walk = NoWalk

\* the driver calls g.Next(ctx)
EnterNext ==
    /\ st = "running"
    /\ Len(out) < MaxCalls
    /\ st' = "calling"
    /\ world' = Pushed(world)
    /\ last' = [called |-> TRUE, done |-> FALSE, pre |-> gen, w |-> world,
                x |-> NilValue, ng |-> Nil]
    /\ UNCHANGED <<gen, out, prog, walk>>

\* the body of flatMapper.Next on gen, once: the inner Next, then the call
\* on Cons(g.f(x), ng), which is the nil Generator (a panic), returns the
\* head of g.f(x), or is flatMapper.Next on FlatMap(g.f, ng)
flatMapperStep ==
    /\ st = "calling"
    /\ gen.k = "flatMapper"
    /\ \E o \in GenNext(gen.inner, [done |-> FALSE], world) :
          LET head == ApplyFlat(gen.f, o.x)
              ng == IF o.ng # Nil THEN FlatMap(gen.f, o.ng) ELSE Nil
          IN  IF o.panic \/ Cons(head, ng) = Nil
              THEN /\ st' = "panic"
                   /\ gen' = Nil
                   /\ world' = Unwound(Counted(o.w))
                   /\ UNCHANGED <<out, last>>
              ELSE IF head = Nil
              THEN /\ gen' = ng
                   /\ world' = Pushed(Counted(o.w))
                   /\ UNCHANGED <<st, out, last>>
              ELSE \E r \in GenNext(Cons(head, ng), [done |-> FALSE], o.w) :
                      /\ gen' = r.ng
                      /\ out' = Append(out, r.x)
                      /\ st' = IF r.ng = Nil THEN "done" ELSE "running"
                      /\ world' = Unwound(Counted(r.w))
                      /\ last' = [last EXCEPT !.x = r.x, !.ng = r.ng]
    /\ UNCHANGED <<prog, walk>>

StepNext == EnterNext \/ flatMapperStep

\* the goroutine that called Next keeps running
StepSpec == StepInit /\ [][StepNext]_vars /\ WF_vars(flatMapperStep)

\* C24: every Next call on a generator without a pacing combinator
\* returns: a Next call of the driver on Filter over a finite or an
\* infinite source, once entered, comes to its end.
C24_NextReturns == (st = "calling") ~> (st # "calling")

====
